---- MODULE Spec2Model ----
(***************************************************************************)
(* Expense splitter: the settlement engine (utils.calculate_settlements), *)
(* the validator (utils.validate_expense_data), the notifier               *)
(* (utils.send_whatsapp_notification), the store (database.Database) and   *)
(* the request handlers of app.py.                                         *)
(*                                                                         *)
(* Money.  A request carries amounts in units of 0.01 (cents).  Inside the *)
(* program amounts are floats; here they are exact integers counted in     *)
(* ticks, Cent ticks to 0.01, so that total_amount / len(participants) is  *)
(* exact for every participant count up to 6.  Float rounding error is not *)
(* modelled: arithmetic is exact.                                          *)
(***************************************************************************)
EXTENDS Integers, Sequences, FiniteSets, TLC

VARIABLES
    \* ---- one call of calculate_settlements, statement by statement ----
    pc,             \* "call" | "loop" | "done": position inside the call
    participants,   \* the list passed in; its elements are mutated in place
    total_amount,   \* the total passed in, in ticks
    debtors,        \* list of references (indices into participants)
    creditors,      \* list of references (indices into participants)
    i, j,           \* the two pointers of the matching loop
    settlements,    \* the transfers emitted so far
    \* ---- the web application ----
    store,          \* the expenses table: id -> row
    next_id,        \* AUTOINCREMENT counter of the expenses table
    phase,          \* "idle" | "notify": position of the create request
    pending,        \* the create request between save and response
    outbox,         \* message bodies handed to the messaging client
    response,       \* the last response returned by a handler
    configured,     \* Config.TWILIO_ACCOUNT_SID and TWILIO_AUTH_TOKEN are both set
    issued          \* id -> transfer list returned when the expense was created

engineVars == <<pc, participants, total_amount, debtors, creditors, i, j, settlements>>
appVars == <<store, next_id, phase, pending, outbox, response, configured, issued>>
vars == <<pc, participants, total_amount, debtors, creditors, i, j, settlements,
          store, next_id, phase, pending, outbox, response, configured, issued>>

----------------------------------------------------------------------------
(* Bounds of the model *)

MaxPeople == 5          \* longest participant list handed to the engine directly
MaxContribution == 5    \* largest contribution handed to the engine: in cents, and in units of 0.02
MaxSkew == 1            \* by how much, in cents, total_amount exceeds the contributions when it does
FairMaxPeople == 3      \* longest participant list of the calls checked for termination
ReqMaxPeople == 2       \* longest participant list of a create request
ReqTotal == 4           \* the in-range total_amount, in cents, of a create request
MaxExpenses == 1        \* expenses ever inserted (cap of the AUTOINCREMENT counter)

(* Ticks per cent: the resolution at which the engine's floats are held *)
Cent == 60

(* The tolerance 0.01 of the engine, in ticks *)
Epsilon == Cent

----------------------------------------------------------------------------
(* Arithmetic helpers *)

Abs(x) == IF x < 0 THEN -x ELSE x

Min(a, b) == IF a < b THEN a ELSE b

RECURSIVE SumSeq(_)
SumSeq(s) == IF s = <<>> THEN 0 ELSE Head(s) + SumSeq(Tail(s))

Ticks(cents) == cents * Cent

----------------------------------------------------------------------------
(* models.py *)

Participant(name, contribution, phone_number, settlement_amount) ==
    [name |-> name, contribution |-> contribution,
     phone_number |-> phone_number, settlement_amount |-> settlement_amount]

Settlement(from_person, to_person, amount) ==
    [from_person |-> from_person, to_person |-> to_person, amount |-> amount]

----------------------------------------------------------------------------
(* utils.calculate_settlements *)

(* line 41 *)
PerPersonShare(ps, total) == total \div Len(ps)

(* a slip: the balance is added to the settlement_amount already there *)
InitialBalances_Accumulate(ps, total) ==
    [k \in 1..Len(ps) |->
        [ps[k] EXCEPT !.settlement_amount =
            ps[k].settlement_amount + ps[k].contribution - (total \div Len(ps))]]

(* lines 44-45: every participant's settlement_amount is overwritten *)
InitialBalances(ps, total) ==
    [k \in 1..Len(ps) |->
        [ps[k] EXCEPT !.settlement_amount = ps[k].contribution - PerPersonShare(ps, total)]]

(* list.sort is stable: equal keys keep their order of appearance.          *)
(* InsertAsc puts x behind every element whose key is <= x's key.           *)
RECURSIVE InsertAsc(_, _, _)
InsertAsc(x, s, key) ==
    IF s = <<>> THEN <<x>>
    ELSE IF key[x] < key[Head(s)] THEN <<x>> \o s
    ELSE <<Head(s)>> \o InsertAsc(x, Tail(s), key)

RECURSIVE SortAsc(_, _)
SortAsc(s, key) ==
    IF s = <<>> THEN <<>>
    ELSE InsertAsc(s[Len(s)], SortAsc(SubSeq(s, 1, Len(s) - 1), key), key)

(* sort(reverse=True) is stable as well *)
RECURSIVE InsertDesc(_, _, _)
InsertDesc(x, s, key) ==
    IF s = <<>> THEN <<x>>
    ELSE IF key[x] > key[Head(s)] THEN <<x>> \o s
    ELSE <<Head(s)>> \o InsertDesc(x, Tail(s), key)

RECURSIVE SortDesc(_, _)
SortDesc(s, key) ==
    IF s = <<>> THEN <<>>
    ELSE InsertDesc(s[Len(s)], SortDesc(SubSeq(s, 1, Len(s) - 1), key), key)

(* the list comprehension [k for k in ... if test(k)], in list order *)
RECURSIVE Filter(_, _)
Filter(s, keep) ==
    IF s = <<>> THEN <<>>
    ELSE IF Head(s) \in keep THEN <<Head(s)>> \o Filter(Tail(s), keep)
    ELSE Filter(Tail(s), keep)

Indices(ps) == [k \in 1..Len(ps) |-> k]

BalanceKey(ps) == [k \in 1..Len(ps) |-> ps[k].settlement_amount]

(* lines 48 and 52 *)
Debtors(ps) ==
    SortAsc(Filter(Indices(ps), {k \in 1..Len(ps) : ps[k].settlement_amount < -Epsilon}),
            BalanceKey(ps))

(* a slip: reverse=True forgotten *)
Creditors_Ascending(ps) ==
    SortAsc(Filter(Indices(ps), {k \in 1..Len(ps) : ps[k].settlement_amount > Epsilon}),
            BalanceKey(ps))

(* lines 49 and 53 *)
Creditors(ps) ==
    SortDesc(Filter(Indices(ps), {k \in 1..Len(ps) : ps[k].settlement_amount > Epsilon}),
             BalanceKey(ps))

(* The state of a call: the locals of calculate_settlements *)
Frame(ps, ds, cs, ii, jj, ss) ==
    [participants |-> ps, debtors |-> ds, creditors |-> cs,
     i |-> ii, j |-> jj, settlements |-> ss]

(* lines 41-57, for a non-empty list *)
Begin(ps, total) ==
    LET bs == InitialBalances(ps, total)
    IN  Frame(bs, Debtors(bs), Creditors(bs), 0, 0, <<>>)

(* line 59 *)
LoopCond(f) == f.i < Len(f.debtors) /\ f.j < Len(f.creditors)

(* a slip: half of the smaller amount is transferred *)
SettlementAmount_Half(debt_amount, credit_amount) ==
    (IF debt_amount < credit_amount THEN debt_amount ELSE credit_amount) \div 2

(* a slip: the whole debt is transferred whatever the credit *)
SettlementAmount_WholeDebt(debt_amount, credit_amount) == debt_amount

(* a slip: the difference of the two amounts is transferred *)
SettlementAmount_Difference(debt_amount, credit_amount) == Abs(debt_amount - credit_amount)

(* line 66 *)
SettlementAmount(debt_amount, credit_amount) == Min(debt_amount, credit_amount)

(* a slip: abs() forgotten *)
Settled_NoAbs(balance) == balance < -Epsilon

(* lines 79 and 81 *)
Settled(balance) == Abs(balance) < Epsilon

(* a slip: the creditor's balance is not reduced *)
UpdateBalances_DebtorOnly(ps, d, c, amount) ==
    [ps EXCEPT ![d].settlement_amount = ps[d].settlement_amount + amount]

(* a slip: the debtor's balance is not raised *)
UpdateBalances_CreditorOnly(ps, d, c, amount) ==
    [ps EXCEPT ![c].settlement_amount = ps[c].settlement_amount - amount]

(* lines 75-76 *)
UpdateBalances(ps, d, c, amount) ==
    [ps EXCEPT ![d].settlement_amount = ps[d].settlement_amount + amount,
               ![c].settlement_amount = ps[c].settlement_amount - amount]

(* lines 60-82: one iteration of the loop *)
MatchStep(f) ==
    LET d == f.debtors[f.i + 1]
        c == f.creditors[f.j + 1]
        debt_amount == Abs(f.participants[d].settlement_amount)
        credit_amount == f.participants[c].settlement_amount
        amount == SettlementAmount(debt_amount, credit_amount)
        ps == UpdateBalances(f.participants, d, c, amount)
    IN  Frame(ps, f.debtors, f.creditors,
              IF Settled(ps[d].settlement_amount) THEN f.i + 1 ELSE f.i,
              IF Settled(ps[c].settlement_amount) THEN f.j + 1 ELSE f.j,
              Append(f.settlements,
                     Settlement(f.participants[d].name, f.participants[c].name, amount)))

RECURSIVE RunLoop(_)
RunLoop(f) == IF LoopCond(f) THEN RunLoop(MatchStep(f)) ELSE f

(* lines 32-84: the whole call, returning (participants, settlements) *)
calculate_settlements(ps, total) ==
    IF ps = <<>> THEN [participants |-> <<>>, settlements |-> <<>>]
    ELSE LET f == RunLoop(Begin(ps, total))
         IN  [participants |-> f.participants, settlements |-> f.settlements]

----------------------------------------------------------------------------
(* The engine called directly, one statement group at a time *)

Names == <<"A", "B", "C", "D", "E", "F">>

(* Names are not checked for uniqueness: a list either has distinct names  *)
(* or its first two participants share one.                                *)
NameLists(n) ==
    {[k \in 1..n |-> Names[k]]} \cup
    (IF n >= 2 THEN {[k \in 1..n |-> IF k = 2 THEN Names[1] ELSE Names[k]]} ELSE {})

(* contributions, in cents: every amount up to MaxContribution cents, or   *)
(* every even amount up to twice that                                      *)
ContributionLists(n) ==
    [1..n -> 0..MaxContribution] \cup [1..n -> {2 * u : u \in 0..MaxContribution}]

CurrentFrame == Frame(participants, debtors, creditors, i, j, settlements)

IdleApp ==
    /\ store = <<>>
    /\ next_id = 1
    /\ phase = "idle"
    /\ pending = <<>>
    /\ outbox = <<>>
    /\ response = [status |-> 0]
    /\ issued = <<>>

EngineInit ==
    /\ pc = "call"
    /\ \E n \in 0..MaxPeople :
         \E cs \in ContributionLists(n), ns \in NameLists(n) :
           /\ participants = [k \in 1..n |-> Participant(ns[k], Ticks(cs[k]), "", 0)]
           /\ \E skew \in {0, MaxSkew} : total_amount = Ticks(SumSeq(cs) + skew)
    /\ debtors = <<>>
    /\ creditors = <<>>
    /\ i = 0
    /\ j = 0
    /\ settlements = <<>>
    /\ IdleApp
    /\ configured = FALSE

(* lines 37-38: an empty list returns at once *)
EnterEmpty ==
    /\ pc = "call"
    /\ participants = <<>>
    /\ pc' = "done"
    /\ UNCHANGED <<participants, total_amount, debtors, creditors, i, j, settlements>>
    /\ UNCHANGED appVars

(* lines 41-57 *)
Enter ==
    /\ pc = "call"
    /\ participants # <<>>
    /\ LET f == Begin(participants, total_amount)
       IN  /\ participants' = f.participants
           /\ debtors' = f.debtors
           /\ creditors' = f.creditors
           /\ i' = f.i
           /\ j' = f.j
           /\ settlements' = f.settlements
    /\ pc' = "loop"
    /\ UNCHANGED total_amount
    /\ UNCHANGED appVars

(* lines 59-82: one iteration *)
Iterate ==
    /\ pc = "loop"
    /\ LoopCond(CurrentFrame)
    /\ LET f == MatchStep(CurrentFrame)
       IN  /\ participants' = f.participants
           /\ i' = f.i
           /\ j' = f.j
           /\ settlements' = f.settlements
    /\ UNCHANGED <<pc, total_amount, debtors, creditors>>
    /\ UNCHANGED appVars

(* lines 59 and 84: the loop condition fails and the call returns *)
Return ==
    /\ pc = "loop"
    /\ ~LoopCond(CurrentFrame)
    /\ pc' = "done"
    /\ UNCHANGED <<participants, total_amount, debtors, creditors, i, j, settlements>>
    /\ UNCHANGED appVars

EngineNext == EnterEmpty \/ Enter \/ Iterate \/ Return

EngineSpec == EngineInit /\ [][EngineNext]_vars

(* the calls the termination of the loop is checked on: up to              *)
(* FairMaxPeople participants of distinct names, contributions of whole    *)
(* cents, the total the sum of the contributions or MaxSkew cents above it *)
EngineFairInit ==
    /\ pc = "call"
    /\ \E n \in 0..FairMaxPeople :
         \E cs \in [1..n -> 0..MaxContribution] :
           /\ participants = [k \in 1..n |-> Participant(Names[k], Ticks(cs[k]), "", 0)]
           /\ \E skew \in {0, MaxSkew} : total_amount = Ticks(SumSeq(cs) + skew)
    /\ debtors = <<>>
    /\ creditors = <<>>
    /\ i = 0
    /\ j = 0
    /\ settlements = <<>>
    /\ IdleApp
    /\ configured = FALSE

(* the call runs on one thread with nothing to wait for: a statement that  *)
(* can execute does execute                                                *)
EngineFairSpec == EngineFairInit /\ [][EngineNext]_vars /\ WF_vars(EngineNext)

----------------------------------------------------------------------------
(* Vocabulary of the properties of one call *)

Running == pc \in {"loop", "done"}

Returned == pc = "done" /\ participants # <<>>

(* contribution minus total_amount / count(participants): the net balance *)
NetBalance(k) == participants[k].contribution - (total_amount \div Len(participants))

ContributionsSumToTotal ==
    SumSeq([k \in 1..Len(participants) |-> participants[k].contribution]) = total_amount

NamesDistinct ==
    \A a, b \in 1..Len(participants) :
        participants[a].name = participants[b].name => a = b

RECURSIVE AmountTo(_, _)
AmountTo(ss, name) ==
    IF ss = <<>> THEN 0
    ELSE (IF Head(ss).to_person = name THEN Head(ss).amount ELSE 0) + AmountTo(Tail(ss), name)

RECURSIVE AmountFrom(_, _)
AmountFrom(ss, name) ==
    IF ss = <<>> THEN 0
    ELSE (IF Head(ss).from_person = name THEN Head(ss).amount ELSE 0) + AmountFrom(Tail(ss), name)

NetFlow(name) == AmountTo(settlements, name) - AmountFrom(settlements, name)

DebtorSet == {k \in 1..Len(participants) : NetBalance(k) < -Epsilon}

CreditorSet == {k \in 1..Len(participants) : NetBalance(k) > Epsilon}

BalanceSum == SumSeq([k \in 1..Len(participants) |-> participants[k].settlement_amount])

Max(a, b) == IF a > b THEN a ELSE b

----------------------------------------------------------------------------
(* C1 as stated: for every non-empty list and every total_amount, on       *)
(* return each participant's incoming minus outgoing transfers is within   *)
(* epsilon of contribution - total_amount/count.                           *)
C1_FlowMatchesBalance ==
    Returned =>
        \A k \in 1..Len(participants) :
            Abs(NetFlow(participants[k].name) - NetBalance(k)) <= Epsilon

(* C1 amended: when the names are distinct and the contributions sum to    *)
(* total_amount, on return each participant's incoming minus outgoing      *)
(* transfers is within (count - 1) * epsilon of its net balance.           *)
C1_FlowWithinWidenedTolerance ==
    (Returned /\ NamesDistinct /\ ContributionsSumToTotal) =>
        \A k \in 1..Len(participants) :
            Abs(NetFlow(participants[k].name) - NetBalance(k))
                <= (Len(participants) - 1) * Epsilon

(* a returned call with distinct names and matching total that emitted     *)
(* transfers and left one participant more than epsilon from its balance   *)
C1_Witness ==
    /\ Returned /\ NamesDistinct /\ ContributionsSumToTotal
    /\ Len(settlements) >= 1
    /\ \E k \in 1..Len(participants) :
         Abs(NetFlow(participants[k].name) - NetBalance(k)) > Epsilon

(* C2 as stated: on return every participant's settlement_amount is its    *)
(* net balance, contribution - total_amount/count.                         *)
C2_ReturnedBalanceIsNet ==
    Returned =>
        \A k \in 1..Len(participants) : participants[k].settlement_amount = NetBalance(k)

----------------------------------------------------------------------------
(* Alternative settlement plans: every debtor pays its whole debt to one   *)
(* creditor (PayPlans), or every creditor is paid its whole credit by one  *)
(* debtor (CollectPlans).  A plan settles within tol when it leaves every  *)
(* debtor and creditor within tol of zero.                                 *)

PayPlans == [DebtorSet -> CreditorSet]

PayPlanSettles(f, tol) ==
    \A c \in CreditorSet :
        LET ds == {d \in DebtorSet : f[d] = c}
            paid == SumSeq([n \in 1..Len(participants) |->
                              IF n \in ds THEN -NetBalance(n) ELSE 0])
        IN  Abs(NetBalance(c) - paid) <= tol

CollectPlans == [CreditorSet -> DebtorSet]

CollectPlanSettles(g, tol) ==
    \A d \in DebtorSet :
        LET cs == {c \in CreditorSet : g[c] = d}
            got == SumSeq([n \in 1..Len(participants) |->
                             IF n \in cs THEN NetBalance(n) ELSE 0])
        IN  Abs(NetBalance(d) + got) <= tol

FewerTransfersPossible(tol) ==
    \/ /\ Cardinality(DebtorSet) < Len(settlements)
       /\ \E f \in PayPlans : PayPlanSettles(f, tol)
    \/ /\ Cardinality(CreditorSet) < Len(settlements)
       /\ \E g \in CollectPlans : CollectPlanSettles(g, tol)

C4_TransferCountBound ==
    Running => Len(settlements) <= Len(debtors) + Len(creditors) - 1

(* C4 amended: with a debtor and a creditor the number of transfers is at  *)
(* most count(debtors) + count(creditors) - 1; with no debtor or no        *)
(* creditor there is no transfer.                                          *)
C4_TransferCountBoundNonEmpty ==
    Running =>
        IF debtors = <<>> \/ creditors = <<>>
        THEN settlements = <<>>
        ELSE Len(settlements) <= Len(debtors) + Len(creditors) - 1

(* the bound is met: two debtors, two creditors, three transfers *)
C4_Witness ==
    /\ pc = "done"
    /\ Len(debtors) = 2 /\ Len(creditors) = 2
    /\ Len(settlements) = 3

----------------------------------------------------------------------------
(* The debtor and the creditor the next iteration will match *)
CurrentDebtor == debtors[i + 1]

CurrentCreditor == creditors[j + 1]

SortedTraversal ==
    /\ \A a, b \in 1..Len(debtors) :
         a < b => NetBalance(debtors[a]) <= NetBalance(debtors[b])
    /\ \A a, b \in 1..Len(creditors) :
         a < b => NetBalance(creditors[a]) >= NetBalance(creditors[b])
    /\ {debtors[a] : a \in 1..Len(debtors)} = DebtorSet
    /\ {creditors[a] : a \in 1..Len(creditors)} = CreditorSet

EmitFollowsPointers ==
    settlements' # settlements =>
        /\ Len(settlements') = Len(settlements) + 1
        /\ SubSeq(settlements', 1, Len(settlements)) = settlements
        /\ settlements'[Len(settlements')].from_person = participants[CurrentDebtor].name
        /\ settlements'[Len(settlements')].to_person = participants[CurrentCreditor].name
        /\ i' \in {i, i + 1}
        /\ j' \in {j, j + 1}

(* C6: debtors are traversed in ascending and creditors in descending      *)
(* order of initial balance; every transfer is appended for the debtor and *)
(* the creditor under the pointers, and the pointers only move forward, so *)
(* along the list neither rank decreases and a debtor's transfers are      *)
(* contiguous.                                                             *)
C6_DebtorMajorOrder ==
    /\ [](Running => SortedTraversal)
    /\ [][EmitFollowsPointers]_vars

(* a returned list that moved on to a second debtor and a second creditor *)
C6_Witness ==
    /\ pc = "done"
    /\ Len(settlements) = 3
    /\ i = 2
    /\ j >= 1
    /\ Len(debtors) = 2 /\ Len(creditors) = 2
    /\ \/ NetBalance(creditors[1]) > NetBalance(creditors[2])
       \/ NetBalance(debtors[1]) < NetBalance(debtors[2])

(* C7 as stated: a balance within epsilon of zero, exactly epsilon         *)
(* included, is settled: when a transfer is about to be emitted the        *)
(* current debtor's and creditor's balances exceed epsilon in absolute     *)
(* value; a participant whose initial balance is within epsilon is in      *)
(* neither list; and when all are, there is no transfer.                   *)
C7_SettledWithinEpsilon ==
    Running =>
        /\ (pc = "loop" /\ LoopCond(CurrentFrame)) =>
              /\ Abs(participants[CurrentDebtor].settlement_amount) > Epsilon
              /\ Abs(participants[CurrentCreditor].settlement_amount) > Epsilon
        /\ \A k \in 1..Len(participants) :
              Abs(NetBalance(k)) <= Epsilon =>
                  /\ \A a \in 1..Len(debtors) : debtors[a] # k
                  /\ \A a \in 1..Len(creditors) : creditors[a] # k
        /\ (\A k \in 1..Len(participants) : Abs(NetBalance(k)) <= Epsilon) =>
              settlements = <<>>

(* C8: when the contributions sum to total_amount the balances sum to 0    *)
(* once computed, after every iteration of the loop and on return.         *)
C8_BalancesSumToZero ==
    (Running /\ ContributionsSumToTotal) => BalanceSum = 0

(* a returned call, matching total, after at least two iterations *)
C8_Witness ==
    /\ Returned
    /\ ContributionsSumToTotal
    /\ Len(settlements) >= 2

----------------------------------------------------------------------------
(* config.py, amounts in cents *)

MAX_PARTICIPANTS == 50

MIN_AMOUNT == 1

MAX_AMOUNT == 100000000

----------------------------------------------------------------------------
(* utils.validate_phone_number: the phones drawn hold digits only *)
validate_phone_number(phone) ==
    IF phone = "" THEN FALSE
    ELSE 10 <= Len(phone) /\ Len(phone) <= 15

(* utils.format_phone_number *)
format_phone_number(phone) ==
    "whatsapp:+" \o (IF Len(phone) = 10 THEN "1" \o phone ELSE phone)

(* utils.validate_expense_data, lines 184-204: the first failing           *)
(* participant decides the message; "" when none fails                     *)
RECURSIVE ParticipantError(_)
ParticipantError(ps) ==
    IF ps = <<>> THEN ""
    ELSE LET p == Head(ps)
         IN  IF p.name = "" THEN "All participants must have a name"
             ELSE IF p.contribution < 0 THEN "Contribution cannot be negative"
             ELSE IF p.phone_number # "" /\ ~validate_phone_number(p.phone_number)
                  THEN "Invalid phone number"
             ELSE ParticipantError(Tail(ps))

(* a slip: the contributions are not compared with the total *)
ContributionsMatch_Always(total_contributions, total) == TRUE

(* line 203 *)
ContributionsMatch(total_contributions, total) ==
    Abs(Ticks(total_contributions) - Ticks(total)) <= Epsilon

(* utils.validate_expense_data: the error message, "" when the data is     *)
(* valid.  The fields are present and numeric in every request drawn.      *)
validate_expense_data(data) ==
    IF data.total_amount < MIN_AMOUNT THEN "Total amount must be at least MIN_AMOUNT"
    ELSE IF data.total_amount > MAX_AMOUNT THEN "Total amount cannot exceed MAX_AMOUNT"
    ELSE IF data.num_people < 1 THEN "Number of people must be at least 1"
    ELSE IF data.num_people > MAX_PARTICIPANTS
         THEN "Number of people cannot exceed MAX_PARTICIPANTS"
    ELSE IF data.participants = <<>> THEN ""
    ELSE IF Len(data.participants) # data.num_people
         THEN "Number of participants must match num_people"
    ELSE IF ParticipantError(data.participants) # ""
         THEN ParticipantError(data.participants)
    ELSE IF ~ContributionsMatch(
                SumSeq([k \in 1..Len(data.participants) |->
                          data.participants[k].contribution]),
                data.total_amount)
         THEN "Sum of contributions must equal total amount"
    ELSE ""

----------------------------------------------------------------------------
(* models.Participant.to_dict and the rows of database.py *)

to_dict(p) ==
    [name |-> p.name, contribution |-> p.contribution,
     phone_number |-> p.phone_number, settlement_amount |-> p.settlement_amount]

(* database.save_expense, lines 45-56: the row written; description and    *)
(* created_at are not modelled                                             *)
Row(total, num_people, ps) ==
    [total_amount |-> total, num_people |-> num_people,
     participants_data |-> [k \in 1..Len(ps) |-> to_dict(ps[k])]]

(* database.get_expense_by_id, lines 153-171 *)
LoadParticipants(row) ==
    [k \in 1..Len(row.participants_data) |->
        Participant(row.participants_data[k].name,
                    row.participants_data[k].contribution,
                    row.participants_data[k].phone_number,
                    row.participants_data[k].settlement_amount)]

(* app.create_expense, lines 47-65 *)
BuildParticipants(data) ==
    IF data.participants # <<>>
    THEN [k \in 1..Len(data.participants) |->
            Participant(data.participants[k].name,
                        Ticks(data.participants[k].contribution),
                        data.participants[k].phone_number, 0)]
    ELSE [k \in 1..data.num_people |->
            Participant(Names[k], Ticks(data.total_amount) \div data.num_people, "", 0)]

----------------------------------------------------------------------------
(* utils.send_whatsapp_notification, lines 105-128: the message body *)

RECURSIVE IncomingLines(_, _)
IncomingLines(ss, name) ==
    IF ss = <<>> THEN <<>>
    ELSE (IF Head(ss).to_person = name
          THEN <<[person |-> Head(ss).from_person, amount |-> Head(ss).amount]>>
          ELSE <<>>) \o IncomingLines(Tail(ss), name)

RECURSIVE OutgoingLines(_, _)
OutgoingLines(ss, name) ==
    IF ss = <<>> THEN <<>>
    ELSE (IF Head(ss).from_person = name
          THEN <<[person |-> Head(ss).to_person, amount |-> Head(ss).amount]>>
          ELSE <<>>) \o OutgoingLines(Tail(ss), name)

MessageKind(settlement_amount) ==
    IF settlement_amount > Epsilon THEN "get_back"
    ELSE IF settlement_amount < -Epsilon THEN "owe"
    ELSE "settled"

BuildMessage(p, ss) ==
    LET kind == MessageKind(p.settlement_amount)
    IN  [to |-> format_phone_number(p.phone_number),
         name |-> p.name,
         kind |-> kind,
         amount |-> Abs(p.settlement_amount),
         lines |-> IF kind = "get_back" THEN IncomingLines(ss, p.name)
                   ELSE IF kind = "owe" THEN OutgoingLines(ss, p.name)
                   ELSE <<>>]

----------------------------------------------------------------------------
(* The requests drawn *)

ValidPhone == "5551234567"

BadPhone == "12345"

(* One participant of a request: someone who paid nothing or everything    *)
(* and can be reached, someone who paid one cent less than the total and   *)
(* cannot, and one of each defect the validator looks for.                 *)
ParticipantInputs(k) ==
    { [name |-> Names[k], contribution |-> 0, phone_number |-> ValidPhone],
      [name |-> Names[k], contribution |-> ReqTotal, phone_number |-> ValidPhone],
      [name |-> Names[k], contribution |-> ReqTotal - 1, phone_number |-> ""],
      [name |-> Names[k], contribution |-> -1, phone_number |-> ""],
      [name |-> Names[k], contribution |-> 0, phone_number |-> BadPhone],
      [name |-> "", contribution |-> 0, phone_number |-> ""] }

ParticipantInputLists(n) ==
    {ps \in [1..n -> UNION {ParticipantInputs(k) : k \in 1..n}] :
        \A k \in 1..n : ps[k] \in ParticipantInputs(k)}

RequestShapes ==
    [total_amount : {0, ReqTotal, MAX_AMOUNT + 1},
     num_people : (0..ReqMaxPeople) \cup {MAX_PARTICIPANTS + 1},
     participants : UNION {ParticipantInputLists(n) : n \in 0..ReqMaxPeople}]

(* the number of fields of a request that are out of range or malformed *)
Defects(data) ==
    (IF data.total_amount \in {0, MAX_AMOUNT + 1} THEN 1 ELSE 0)
    + (IF data.num_people \in {0, MAX_PARTICIPANTS + 1} THEN 1 ELSE 0)
    + Cardinality({k \in 1..Len(data.participants) :
                     \/ data.participants[k].name = ""
                     \/ data.participants[k].contribution < 0
                     \/ data.participants[k].phone_number = BadPhone})

(* The bodies of the create requests drawn: at most one field is out of    *)
(* range or malformed; the number of participants and the sum of their     *)
(* contributions are free.  send_notifications is drawn where it is read.  *)
Requests == {data \in RequestShapes : Defects(data) <= 1}

ExpenseIds == 1..MaxExpenses

----------------------------------------------------------------------------
(* The handlers of app.py *)

EngineIdle ==
    /\ pc = "idle"
    /\ participants = <<>>
    /\ total_amount = 0
    /\ debtors = <<>>
    /\ creditors = <<>>
    /\ i = 0
    /\ j = 0
    /\ settlements = <<>>

Init ==
    /\ EngineIdle
    /\ IdleApp
    /\ configured \in BOOLEAN

(* create_expense, lines 35-37: the validator rejects the request *)
CreateRejected(data) ==
    /\ phase = "idle"
    /\ validate_expense_data(data) # ""
    /\ response' = [status |-> 400, error |-> validate_expense_data(data)]
    /\ UNCHANGED <<store, next_id, phase, pending, outbox, configured, issued>>
    /\ UNCHANGED engineVars

(* create_expense, lines 39-86: build the participants, compute the        *)
(* settlements, save the expense; the notifications follow                 *)
CreateExpense(data, send_notifications) ==
    /\ phase = "idle"
    /\ next_id <= MaxExpenses
    /\ validate_expense_data(data) = ""
    /\ LET total == Ticks(data.total_amount)
           r == calculate_settlements(BuildParticipants(data), total)
       IN  /\ store' = (next_id :> Row(total, data.num_people, r.participants)) @@ store
           /\ issued' = (next_id :> r.settlements) @@ issued
           /\ pending' = [expense_id |-> next_id,
                          total_amount |-> total,
                          participants |-> r.participants,
                          settlements |-> r.settlements,
                          send_notifications |-> send_notifications,
                          next |-> 1,
                          notification_results |-> <<>>]
    /\ next_id' = next_id + 1
    /\ phase' = "notify"
    /\ outbox' = <<>>
    /\ UNCHANGED <<response, configured>>
    /\ UNCHANGED engineVars

NotifyPending ==
    /\ phase = "notify"
    /\ pending.send_notifications
    /\ pending.next <= Len(pending.participants)

(* create_expense, lines 90-91: a participant without phone number is      *)
(* skipped                                                                 *)
NotifySkip ==
    /\ NotifyPending
    /\ pending.participants[pending.next].phone_number = ""
    /\ pending' = [pending EXCEPT !.next = pending.next + 1]
    /\ UNCHANGED <<store, next_id, phase, outbox, response, configured, issued>>
    /\ UNCHANGED engineVars

(* send_whatsapp_notification, lines 92-94: no credentials, no message *)
NotifyUnconfigured ==
    /\ NotifyPending
    /\ pending.participants[pending.next].phone_number # ""
    /\ ~configured
    /\ pending' = [pending EXCEPT
                     !.next = pending.next + 1,
                     !.notification_results =
                         Append(pending.notification_results,
                                [name |-> pending.participants[pending.next].name,
                                 success |-> FALSE])]
    /\ UNCHANGED <<store, next_id, phase, outbox, response, configured, issued>>
    /\ UNCHANGED engineVars

(* send_whatsapp_notification, lines 101-144: the message is built and     *)
(* handed to the client, which delivers it or raises                       *)
NotifySend(delivered) ==
    /\ NotifyPending
    /\ pending.participants[pending.next].phone_number # ""
    /\ configured
    /\ outbox' = Append(outbox, BuildMessage(pending.participants[pending.next],
                                             pending.settlements))
    /\ pending' = [pending EXCEPT
                     !.next = pending.next + 1,
                     !.notification_results =
                         Append(pending.notification_results,
                                [name |-> pending.participants[pending.next].name,
                                 success |-> delivered])]
    /\ UNCHANGED <<store, next_id, phase, response, configured, issued>>
    /\ UNCHANGED engineVars

(* a create_expense that undoes the save and fails the request when a      *)
(* notification failed                                                     *)
CreateRespond_RollsBack ==
    /\ phase = "notify"
    /\ ~NotifyPending
    /\ LET results == pending.notification_results
           failed == \E k \in 1..Len(results) : ~results[k].success
       IN  IF failed
           THEN /\ response' = [status |-> 500, error |-> "Server error"]
                /\ store' = [id \in DOMAIN store \ {pending.expense_id} |-> store[id]]
           ELSE /\ response' = [status |-> 201,
                                expense_id |-> pending.expense_id,
                                participants |-> [k \in 1..Len(pending.participants) |->
                                                    to_dict(pending.participants[k])],
                                settlements |-> pending.settlements,
                                notifications |-> results]
                /\ UNCHANGED store
    /\ phase' = "idle"
    /\ pending' = <<>>
    /\ outbox' = <<>>
    /\ UNCHANGED <<next_id, configured, issued>>
    /\ UNCHANGED engineVars

(* create_expense, lines 98-103 *)
CreateRespond ==
    /\ phase = "notify"
    /\ ~NotifyPending
    /\ response' = [status |-> 201,
                    expense_id |-> pending.expense_id,
                    participants |-> [k \in 1..Len(pending.participants) |->
                                        to_dict(pending.participants[k])],
                    settlements |-> pending.settlements,
                    notifications |-> pending.notification_results]
    /\ phase' = "idle"
    /\ pending' = <<>>
    /\ outbox' = <<>>
    /\ UNCHANGED <<store, next_id, configured, issued>>
    /\ UNCHANGED engineVars

(* get_expense, lines 136-148 *)
GetExpense(expense_id) ==
    /\ IF expense_id \notin DOMAIN store
       THEN response' = [status |-> 404, error |-> "Expense not found"]
       ELSE LET row == store[expense_id]
                r == calculate_settlements(LoadParticipants(row), row.total_amount)
            IN  response' = [status |-> 200,
                             expense_id |-> expense_id,
                             participants |-> [k \in 1..Len(r.participants) |->
                                                 to_dict(r.participants[k])],
                             settlements |-> r.settlements]
    /\ UNCHANGED <<store, next_id, phase, pending, outbox, configured, issued>>
    /\ UNCHANGED engineVars

(* delete_expense, lines 159-167 *)
DeleteExpense(expense_id) ==
    /\ IF expense_id \notin DOMAIN store
       THEN /\ response' = [status |-> 404, error |-> "Expense not found"]
            /\ UNCHANGED store
       ELSE /\ response' = [status |-> 200, message |-> "Expense deleted successfully"]
            /\ store' = [id \in DOMAIN store \ {expense_id} |-> store[id]]
    /\ UNCHANGED <<next_id, phase, pending, outbox, configured, issued>>
    /\ UNCHANGED engineVars

Next ==
    \/ \E data \in Requests : CreateRejected(data)
    \/ \E data \in Requests, send_notifications \in BOOLEAN :
          CreateExpense(data, send_notifications)
    \/ NotifySkip
    \/ NotifyUnconfigured
    \/ \E delivered \in BOOLEAN : NotifySend(delivered)
    \/ CreateRespond
    \/ \E expense_id \in ExpenseIds : GetExpense(expense_id)
    \/ \E expense_id \in ExpenseIds : DeleteExpense(expense_id)

Spec == Init /\ [][Next]_vars

----------------------------------------------------------------------------
(* Vocabulary of the properties of the application *)

Recalculated(ps, total) == calculate_settlements(ps, total).settlements

FetchedExpense ==
    /\ response.status = 200
    /\ "settlements" \in DOMAIN response

PendingIndex(name) ==
    CHOOSE k \in 1..Len(pending.participants) : pending.participants[k].name = name

PendingNetBalance(k) ==
    pending.participants[k].contribution
        - (pending.total_amount \div Len(pending.participants))

(* C9 as stated: a notified participant whose balance (contribution minus  *)
(* share) exceeds epsilon is sent the transfers with to == name, one whose *)
(* balance is below -epsilon the transfers with from == name, the others   *)
(* the settled message; nobody named as from in a transfer is told they    *)
(* are settled.                                                            *)
C9_MessageFollowsBalance ==
    phase = "notify" =>
        \A m \in 1..Len(outbox) :
            LET name == outbox[m].name
                nb == PendingNetBalance(PendingIndex(name))
            IN  /\ nb > Epsilon =>
                      /\ outbox[m].kind = "get_back"
                      /\ outbox[m].lines = IncomingLines(pending.settlements, name)
                /\ nb < -Epsilon =>
                      /\ outbox[m].kind = "owe"
                      /\ outbox[m].lines = OutgoingLines(pending.settlements, name)
                /\ Abs(nb) <= Epsilon => outbox[m].kind = "settled"
                /\ (\E n \in 1..Len(pending.settlements) :
                        pending.settlements[n].from_person = name)
                      => outbox[m].kind # "settled"

----------------------------------------------------------------------------
StoredExpensesValid ==
    \A id \in DOMAIN store :
        LET row == store[id]
        IN  /\ MIN_AMOUNT * Cent <= row.total_amount
            /\ row.total_amount \div Cent <= MAX_AMOUNT
            /\ 1 <= row.num_people
            /\ row.num_people <= MAX_PARTICIPANTS
            /\ row.participants_data # <<>>
            /\ Len(row.participants_data) = row.num_people
            /\ \A k \in 1..Len(row.participants_data) :
                  row.participants_data[k].contribution >= 0
            /\ Abs(SumSeq([k \in 1..Len(row.participants_data) |->
                             row.participants_data[k].contribution]) - row.total_amount)
                   <= Epsilon

RejectionLeavesStore ==
    (response' # response /\ response'.status = 400) =>
        /\ response'.error # ""
        /\ store' = store
        /\ next_id' = next_id
        /\ issued' = issued
        /\ pending' = pending

(* C10: a response carrying a validation error leaves the store (and the   *)
(* request in flight) as it was, and no request that fails validation is   *)
(* ever stored: every stored expense has total_amount within [MIN_AMOUNT,  *)
(* MAX_AMOUNT], num_people within [1, MAX_PARTICIPANTS], no negative       *)
(* contribution, and a non-empty participant list of length num_people     *)
(* whose contributions sum to total_amount within 0.01.                    *)
C10_RejectedBeforeEngineAndStore ==
    /\ []StoredExpensesValid
    /\ [][RejectionLeavesStore]_vars

(* a request was rejected while an expense was stored *)
C10_Witness ==
    /\ response.status = 400
    /\ store # <<>>

----------------------------------------------------------------------------
(* C11 *)

(* the step of create_expense that saves the expense and enters the        *)
(* notification loop                                                       *)
SaveStep == phase = "idle" /\ phase' = "notify"

(* one pass of the loop of lines 89-96 over the participant pending.next   *)
NotifyStep == phase = "notify" /\ phase' = "notify" /\ pending' # pending

(* the step that sends the response of lines 98-103 *)
RespondStep == phase = "notify" /\ phase' = "idle"

(* the participants the loop of lines 89-96 hands to the notifier *)
WithPhone(ps) == Filter(Indices(ps), {k \in 1..Len(ps) : ps[k].phone_number # ""})

(* the expense is in the store, and nothing has been attempted, when the   *)
(* notification loop is entered; messages are only handed over inside it   *)
SavedBeforeNotifying ==
    /\ SaveStep =>
          /\ pending'.expense_id \in DOMAIN store'
          /\ pending'.notification_results = <<>>
          /\ outbox' = <<>>
    /\ (outbox' # outbox /\ outbox' # <<>>) => phase = "notify"

(* a pass of the loop leaves the store alone and moves on to the next      *)
(* participant                                                             *)
NotifyStepKeepsGoing ==
    NotifyStep =>
        /\ store' = store
        /\ next_id' = next_id
        /\ pending'.next = pending.next + 1
        /\ pending'.participants = pending.participants
        /\ pending'.expense_id = pending.expense_id

(* a pass over a participant whose notification fails appends              *)
(* {name, success = false}, and nothing else, to the results               *)
FailureIsFlagged(p) ==
    /\ pending'.notification_results =
          Append(pending.notification_results, [name |-> p.name, success |-> FALSE])
    /\ outbox' = outbox

(* a pass over a participant the client is called for appends that         *)
(* participant's flag                                                      *)
AttemptIsFlagged(p) ==
    \E success \in BOOLEAN :
        pending'.notification_results =
            Append(pending.notification_results, [name |-> p.name, success |-> success])

(* the request completes with 201 after every participant was processed,   *)
(* returns the flags collected, and leaves the store alone                 *)
CompletesSuccessfully ==
    RespondStep =>
        /\ response'.status = 201
        /\ response'.expense_id = pending.expense_id
        /\ response'.notifications = pending.notification_results
        /\ pending.send_notifications => pending.next = Len(pending.participants) + 1
        /\ store' = store

(* C11 as stated: the expense is saved before any notification is          *)
(* attempted; a pass of the notification loop over a participant without   *)
(* channel configuration or without contact appends success = false for    *)
(* that participant, a pass over any other participant appends that        *)
(* participant's flag; every pass leaves the store alone and moves to the  *)
(* next participant; and the request completes with 201, one flag per      *)
(* participant, the store untouched.                                       *)
C11_EveryFailureFlagged ==
    /\ [][SavedBeforeNotifying]_vars
    /\ [][NotifyStepKeepsGoing]_vars
    /\ [][NotifyStep =>
             LET p == pending.participants[pending.next]
             IN  IF p.phone_number = "" \/ ~configured
                 THEN FailureIsFlagged(p)
                 ELSE AttemptIsFlagged(p)]_vars
    /\ [][CompletesSuccessfully]_vars
    /\ [][(RespondStep /\ pending.send_notifications) =>
             Len(response'.notifications) = Len(pending.participants)]_vars

(* C11, amended: as above, except that a participant without contact is    *)
(* passed over without any flag, so the response carries one flag per      *)
(* participant that has a contact, in the order of the participants.       *)
C11_FailureFlaggedOrSkipped ==
    /\ [][SavedBeforeNotifying]_vars
    /\ [][NotifyStepKeepsGoing]_vars
    /\ [][NotifyStep =>
             LET p == pending.participants[pending.next]
             IN  IF p.phone_number = ""
                 THEN /\ pending'.notification_results = pending.notification_results
                      /\ outbox' = outbox
                 ELSE IF ~configured
                 THEN FailureIsFlagged(p)
                 ELSE AttemptIsFlagged(p)]_vars
    /\ [][CompletesSuccessfully]_vars
    /\ [][(RespondStep /\ pending.send_notifications) =>
             LET contacted == WithPhone(pending.participants)
             IN  /\ Len(response'.notifications) = Len(contacted)
                 /\ \A k \in 1..Len(contacted) :
                       response'.notifications[k].name =
                           pending.participants[contacted[k]].name]_vars

(* a create request completed with 201 after a notification failed, one    *)
(* of its participants had no contact, and the expense is in the store     *)
C11_Witness ==
    /\ response.status = 201
    /\ "notifications" \in DOMAIN response
    /\ \E k \in 1..Len(response.notifications) : ~response.notifications[k].success
    /\ Len(response.notifications) < Len(response.participants)
    /\ response.expense_id \in DOMAIN store

----------------------------------------------------------------------------
(* C12 *)

DebtorNames == {participants[debtors[k]].name : k \in 1..Len(debtors)}

CreditorNames == {participants[creditors[k]].name : k \in 1..Len(creditors)}

(* C12: at every point of a call of calculate_settlements, every transfer  *)
(* in the list has an amount strictly above zero, is paid by a participant *)
(* of the debtor list and is received by a participant of the creditor     *)
(* list.                                                                   *)
C12_TransfersPositive ==
    Running =>
        \A k \in 1..Len(settlements) :
            /\ settlements[k].amount > 0
            /\ settlements[k].from_person \in DebtorNames
            /\ settlements[k].to_person \in CreditorNames

(* a call returned several transfers, the smallest of exactly 0.01 *)
C12_Witness ==
    /\ Returned
    /\ Len(settlements) >= 3
    /\ \E k \in 1..Len(settlements) : settlements[k].amount = Epsilon

----------------------------------------------------------------------------
(* C13 *)

(* lines 60-82 were executed once *)
IterationStep == pc = "loop" /\ Len(settlements') = Len(settlements) + 1

(* line 84 was reached *)
ReturnStep == pc = "loop" /\ pc' = "done"

(* after the transfer the debtor or the creditor it was made between has   *)
(* a balance within epsilon of zero, the pointers advance past a party     *)
(* exactly when it is within epsilon of zero, and one of them advances     *)
ResolvesOneParty ==
    IterationStep =>
        /\ \/ Abs(participants'[CurrentDebtor].settlement_amount) < Epsilon
           \/ Abs(participants'[CurrentCreditor].settlement_amount) < Epsilon
        /\ i' \in {i, i + 1}
        /\ j' \in {j, j + 1}
        /\ i' = i + 1 <=> Abs(participants'[CurrentDebtor].settlement_amount) < Epsilon
        /\ j' = j + 1 <=> Abs(participants'[CurrentCreditor].settlement_amount) < Epsilon
        /\ i' + j' > i + j

(* the loop goes on only while both lists have a current element, and the  *)
(* call returns only when one of them has none                             *)
StopsAtExhaustion ==
    /\ IterationStep => (i < Len(debtors) /\ j < Len(creditors))
    /\ ReturnStep => (i = Len(debtors) \/ j = Len(creditors))

(* C13: every iteration of the matching loop leaves the debtor or the      *)
(* creditor of its transfer with a balance within epsilon of zero and      *)
(* advances at least one of i, j; the loop goes on while neither list is   *)
(* exhausted and the call returns when one is; and every call returns.     *)
C13_LoopResolvesAndTerminates ==
    /\ [][ResolvesOneParty]_vars
    /\ [][StopsAtExhaustion]_vars
    /\ [](Running => (i <= Len(debtors) /\ j <= Len(creditors)))
    /\ <>(pc = "done")

(* a call returned after several iterations with the creditors exhausted   *)
(* and a debtor left over                                                  *)
C13_Witness ==
    /\ Returned
    /\ Len(settlements) >= 2
    /\ j = Len(creditors)
    /\ i < Len(debtors)

====
